---- MODULE Spec2Model ----
(***************************************************************************)
(* A model of vignette (src/vignette/__init__.py): the thumbnail store of  *)
(* the Freedesktop.org thumbnail standard.                                 *)
(*                                                                         *)
(* Strings of the program (paths, URIs, metadata values) are sequences of  *)
(* tokens; a token is one character, or a run of letters or of digits      *)
(* that the program never looks into ("file", "thumbnails", "128").        *)
(* The file system is a function from the paths that exist to their        *)
(* content.  Every operation of the module is a small state machine run    *)
(* by a process: one step per access to the file system, so that the       *)
(* operations of several processes interleave as the system calls of the   *)
(* program do.                                                             *)
(***************************************************************************)
EXTENDS Integers, Sequences, FiniteSets, TLC

(***************************************************************************)
(* Bounds of the model.                                                    *)
(***************************************************************************)
\* source modification times range over 0..MaxMTime
MaxMTime == 1
\* temporary names tempfile.mkstemp can draw from, per directory
MaxTemp == 3
\* operations started in one behaviour
MaxOps == 2

(***************************************************************************)
(* Tokens and strings.                                                     *)
(***************************************************************************)
AlphaToks ==
    {"a", "b", "c", "t", "x", "y", "file", "http", "thumbnails",
     "normal", "large", "fail", "app", "tmp", "png", "ext"}

DigitToks ==
    {"0", "1", "2", "3", "4", "5", "6", "7", "8", "9", "128", "256"}

RECURSIVE Cat(_)
\* the tokens of s written one after the other, as one string
Cat(s) ==
    IF s = <<>> THEN "" ELSE Head(s) \o Cat(Tail(s))

\* str.startswith
startswith(s, prefix) ==
    /\ Len(s) >= Len(prefix)
    /\ SubSeq(s, 1, Len(prefix)) = prefix

\* the decimal digits of a natural number below 10
Digit(n) ==
    CASE n = 0 -> "0" [] n = 1 -> "1" [] n = 2 -> "2" [] n = 3 -> "3"
      [] n = 4 -> "4" [] n = 5 -> "5" [] n = 6 -> "6" [] n = 7 -> "7"
      [] n = 8 -> "8" [] n = 9 -> "9"

DigitVal(d) ==
    CASE d = "0" -> 0 [] d = "1" -> 1 [] d = "2" -> 2 [] d = "3" -> 3
      [] d = "4" -> 4 [] d = "5" -> 5 [] d = "6" -> 6 [] d = "7" -> 7
      [] d = "8" -> 8 [] d = "9" -> 9

RECURSIVE StrNat(_)
StrNat(n) ==
    IF n < 10 THEN <<Digit(n)>> ELSE StrNat(n \div 10) \o <<Digit(n % 10)>>

\* str(n) of an int
str(n) ==
    IF n < 0 THEN <<"-">> \o StrNat(0 - n) ELSE StrNat(n)

IsDigits(s) ==
    /\ Len(s) > 0
    /\ \A i \in 1..Len(s) : s[i] \in {"0", "1", "2", "3", "4", "5", "6", "7", "8", "9"}

RECURSIVE NatOf(_)
NatOf(s) ==
    IF s = <<>> THEN 0 ELSE 10 * NatOf(SubSeq(s, 1, Len(s) - 1)) + DigitVal(s[Len(s)])

\* the place of the first "." of s, or Len(s) + 1
DotAt(s) ==
    IF \E i \in 1..Len(s) : s[i] = "."
    THEN CHOOSE i \in 1..Len(s) : s[i] = "." /\ \A j \in 1..(i - 1) : s[j] # "."
    ELSE Len(s) + 1

\* whether float(s) accepts s: [-]digits[.digits]
IsNumber(s) ==
    LET body == IF s # <<>> /\ Head(s) = "-" THEN Tail(s) ELSE s
        d == DotAt(body)
    IN  /\ IsDigits(SubSeq(body, 1, d - 1))
        /\ d > Len(body) \/ IsDigits(SubSeq(body, d + 1, Len(body)))

\* int(float(s)): the integer part, truncated towards zero
IntOfFloat(s) ==
    LET neg == s # <<>> /\ Head(s) = "-"
        body == IF neg THEN Tail(s) ELSE s
        n == NatOf(SubSeq(body, 1, DotAt(body) - 1))
    IN  IF neg THEN 0 - n ELSE n

(***************************************************************************)
(* Metadata keys.                                                          *)
(***************************************************************************)
KEY_URI == "Thumb::URI"
KEY_MTIME == "Thumb::MTime"
KEY_WIDTH == "Thumb::Image::Width"
KEY_HEIGHT == "Thumb::Image::Height"
KEY_SIZE == "Thumb::Size"
KEY_MIME == "Thumb::Mimetype"

\* a dict with no key
NoInfo == [k \in {} |-> <<>>]

\* d[k] = v
SetKey(d, k, v) ==
    [x \in DOMAIN d \cup {k} |-> IF x = k THEN v ELSE d[x]]

\* dict.setdefault(k, v)
SetDefault(d, k, v) ==
    IF k \in DOMAIN d THEN d ELSE SetKey(d, k, v)

\* the keys of b over those of a
Update(a, b) ==
    [x \in DOMAIN a \cup DOMAIN b |-> IF x \in DOMAIN b THEN b[x] ELSE a[x]]

(***************************************************************************)
(* Sizes.                                                                  *)
(***************************************************************************)
\* a size argument: a str, an int, or None
SizeStr(s) == [kind |-> "str", s |-> s, n |-> 0]
SizeInt(n) == [kind |-> "int", s |-> "", n |-> n]
SizeNone == [kind |-> "none", s |-> "", n |-> 0]

\* _any2size: a pair (pixels, name), a bare int (lines 226-229), or an exception
_any2size(size) ==
    IF \/ size = SizeStr("normal") \/ size = SizeInt(128) \/ size = SizeStr("128")
    THEN [tag |-> "pair", px |-> 128, name |-> "normal"]
    ELSE IF \/ size = SizeStr("large") \/ size = SizeInt(256) \/ size = SizeStr("256")
    THEN [tag |-> "pair", px |-> 256, name |-> "large"]
    ELSE IF size.kind # "int"
    THEN [tag |-> "TypeError", px |-> 0, name |-> ""]
    ELSE IF 0 < size.n /\ size.n <= 128
    THEN [tag |-> "int", px |-> 128, name |-> ""]
    ELSE IF 128 < size.n /\ size.n <= 256
    THEN [tag |-> "int", px |-> 256, name |-> ""]
    ELSE [tag |-> "ValueError", px |-> 0, name |-> ""]

(***************************************************************************)
(* URIs and paths.                                                         *)
(***************************************************************************)
\* URI_RE.match: [a-z][a-z0-9.+-]*: at the start, letters of either case
URI_RE_match(s) ==
    /\ Len(s) >= 2
    /\ s[1] \in AlphaToks
    /\ \E i \in 2..Len(s) :
          /\ s[i] = ":"
          /\ \A j \in 2..(i - 1) : s[j] \in AlphaToks \cup DigitToks \cup {".", "+", "-"}

\* os.getcwd()
Cwd == <<"/", "t">>

RECURSIVE Components(_)
\* s.split("/"), as a sequence of components, each a sequence of tokens
Components(s) ==
    IF \A i \in 1..Len(s) : s[i] # "/"
    THEN <<s>>
    ELSE LET i == CHOOSE k \in 1..Len(s) : s[k] = "/" /\ \A j \in 1..(k - 1) : s[j] # "/"
         IN  <<SubSeq(s, 1, i - 1)>> \o Components(SubSeq(s, i + 1, Len(s)))

RECURSIVE NormComps(_, _)
\* posixpath.normpath's loop over the components of an absolute path
NormComps(comps, acc) ==
    IF comps = <<>> THEN acc
    ELSE LET c == Head(comps)
         IN  IF c = <<>> \/ c = <<".">>
             THEN NormComps(Tail(comps), acc)
             ELSE IF c = <<".", ".">>
             THEN NormComps(Tail(comps),
                            IF acc = <<>> THEN acc ELSE SubSeq(acc, 1, Len(acc) - 1))
             ELSE NormComps(Tail(comps), Append(acc, c))

RECURSIVE JoinComps(_)
JoinComps(comps) ==
    IF comps = <<>> THEN <<>> ELSE <<"/">> \o Head(comps) \o JoinComps(Tail(comps))

\* os.path.abspath: the path made absolute from the working directory, normalised
abspath(s) ==
    LET full == IF s # <<>> /\ Head(s) = "/" THEN s ELSE Cwd \o <<"/">> \o s
        comps == NormComps(Components(full), <<>>)
    IN  IF comps = <<>> THEN <<"/">> ELSE JoinComps(comps)

\* urllib.parse.quote of one character (safe: letters, digits, "_.-~" and "/")
QuoteTok(t) ==
    IF t \in AlphaToks \cup DigitToks \cup {"_", ".", "-", "~", "/"} THEN t
    ELSE CASE t = " " -> "%20"
           [] t = ":" -> "%3A"
           [] t = "%" -> "%25"
           [] t = "+" -> "%2B"
           [] t = "%20" -> "%2520"
           [] t = "%3A" -> "%253A"
           [] OTHER -> "%" \o t

\* pathname2url
pathname2url(s) ==
    [i \in 1..Len(s) |-> QuoteTok(s[i])]

\* a variant of _any2uri that makes a file:// URL of whatever it is given
_any2uri_of_path(sth) ==
    <<"file", ":", "/", "/">> \o pathname2url(abspath(sth))

_any2uri(sth) ==
    IF URI_RE_match(sth)
    THEN sth
    ELSE <<"file", ":", "/", "/">> \o pathname2url(abspath(sth))

\* hashlib.md5(uri).hexdigest(): one token that names the URI it digests
\* (the digest is taken to have no collision among the modelled URIs)
md5(uri) ==
    "md5(" \o Cat(uri) \o ")"

\* a variant of hash_name that digests the reference as it is written
hash_name_as_given(src) ==
    md5(src)

hash_name(src) ==
    md5(_any2uri(src))

\* $XDG_CACHE_HOME/thumbnails, with XDG_CACHE_HOME = /c
_thumb_path_prefix ==
    <<"/", "c", "/", "thumbnails">>

\* os.path.join(a, name) for a relative name
join(a, name) ==
    a \o <<"/">> \o name

\* os.path.dirname
dirname(path) ==
    LET slashes == {i \in 1..Len(path) : path[i] = "/"}
        last == CHOOSE i \in slashes : \A j \in slashes : j <= i
    IN  IF slashes = {} THEN <<>>
        ELSE IF last = 1 THEN <<"/">>
        ELSE SubSeq(path, 1, last - 1)

\* '%s.png' % md5uri
PngName(digest) ==
    <<digest, ".", "png">>

\* build_thumbnail_path for a size _any2size names by a pair
build_thumbnail_path(src, size) ==
    LET sizename == _any2size(size).name
        prefix == join(_thumb_path_prefix, <<sizename>>)
    IN  IF startswith(src, prefix \o <<"/">>)
        THEN src
        ELSE join(prefix, PngName(hash_name(src)))

\* a variant of fail_path with one fail-file per source for all the apps
fail_path_any_app(src, appname) ==
    join(join(join(_thumb_path_prefix, <<"fail">>), <<"app">>), PngName(hash_name(src)))

\* the path of the fail-file of app appname for src (lines 344-349, 418-423)
fail_path(src, appname) ==
    join(join(join(_thumb_path_prefix, <<"fail">>), <<appname>>), PngName(hash_name(src)))

(***************************************************************************)
(* The state.                                                              *)
(***************************************************************************)
VARIABLES
    avail,      \* the backends whose is_available() succeeds in this process image
    fs,         \* the files that exist: path -> [data, meta]
    dirs,       \* the directories that exist: path -> mode
    mtimes,     \* the modification time of each local source file
    proc,       \* each process: the operation it runs and where it is in it
    scratch,    \* the paths create_temp has returned and the caller still holds
    last,       \* the operation that returned last
    ops,        \* the number of operations started
    pub         \* the process whose rename put the file at each destination

vars == <<avail, fs, dirs, mtimes, proc, scratch, last, ops, pub>>

Procs == {1, 2}

\* a local image file, a local file that is no image, and a URL
ImgRef == <<"/", "t", "/", "a">>
BadRef == <<"/", "t", "/", "b">>
UrlRef == <<"http", ":", "/", "/", "x", "/", "y">>
LocalFiles == {ImgRef, BadRef}

\* a file of the caller outside the cache
ExtPath == <<"/", "t", "/", "ext">>

\* mtime=None, use_fail_appname=None, no path
NoMTime == -1
NoApp == ""
NoPath == <<>>

\* file contents: a file mkstemp has just created, a file being written, a whole
\* PNG image with its text chunks, a whole file that is no image.  The mode is
\* the one of the files of _mkstemp (mode 0600 of tempfile.mkstemp and the
\* chmod of line 270), which writing into the file keeps
EmptyFile == [data |-> "empty", meta |-> NoInfo, mode |-> "0600"]
PartialFile == [data |-> "partial", meta |-> NoInfo, mode |-> "0600"]
ImageFile(meta) == [data |-> "image", meta |-> meta, mode |-> "0600"]
GarbageFile == [data |-> "garbage", meta |-> NoInfo, mode |-> "0600"]

\* os.path.exists
exists(path) ==
    path \in LocalFiles \/ path \in DOMAIN fs \/ path \in DOMAIN dirs

isdir(path) ==
    path \in DOMAIN dirs

isfile(path) ==
    path \in LocalFiles \/ path \in DOMAIN fs

\* os.path.getmtime of a file that exists (the times of the files of the cache
\* are not followed: they are read only for a source that is itself a thumbnail)
getmtime(path) ==
    IF path \in LocalFiles THEN mtimes[path] ELSE 0

\* os.path.getsize of a file that exists, as str() writes it
FileSizeStr(path) ==
    IF path = ImgRef THEN <<"7">> ELSE <<"3">>

\* the files with path removed, and with path holding file
Remove(files, path) ==
    [q \in DOMAIN files \ {path} |-> files[q]]

Store(files, path, file) ==
    [q \in DOMAIN files \cup {path} |-> IF q = path THEN file ELSE files[q]]

\* os.rename(a, b) of an existing file a
RenameFile(files, a, b) ==
    IF a = b THEN files ELSE Store(Remove(files, a), b, files[a])

\* the files in the cache tree
InCache(path) ==
    startswith(path, _thumb_path_prefix \o <<"/">>)

CacheOf(files) ==
    [q \in {x \in DOMAIN files : InCache(x)} |-> files[q]]

(***************************************************************************)
(* Small helpers of the module.                                            *)
(***************************************************************************)
\* whether _any2mtime raises: os.path.getmtime of a file that does not exist
_any2mtime_raises(origname, mtime) ==
    mtime = NoMTime /\ ~exists(origname)

\* int(float(mtime)) of an int below 2^53 is that int
_any2mtime(origname, mtime) ==
    IF mtime = NoMTime THEN getmtime(origname) ELSE mtime

\* _info_dict(d, mtime, src) with src given: the argument of setdefault is
\* evaluated first, so _any2mtime raises whether or not d holds the key
_info_dict_raises(mtime, src) ==
    _any2mtime_raises(src, mtime)

\* a variant that leaves Thumb::URI out
_info_dict_without_uri(d, mtime, src) ==
    SetDefault(d, KEY_MTIME, str(_any2mtime(src, mtime)))

_info_dict(d, mtime, src) ==
    SetDefault(SetDefault(d, KEY_MTIME, str(_any2mtime(src, mtime))),
               KEY_URI, _any2uri(src))

\* the name tempfile.mkstemp gives its n-th candidate
TempName(n) ==
    <<"tmp", Digit(n), ".", "png">>

\* _mkstemp(dest): a new file beside dest; mkstemp opens with O_EXCL, so the
\* name is one that does not exist.  The candidates are tried in order.
TempFree(dest) ==
    {n \in 1..MaxTemp : join(dirname(dest), TempName(n)) \notin DOMAIN fs}

\* a variant that writes where the entry is, and one that reuses one temporary
\* name: what the temporary file of _mkstemp protects against
_mkstemp_in_place(dest) ==
    dest

_mkstemp_shared(dest) ==
    join(dirname(dest), TempName(1))

_mkstemp(dest) ==
    join(dirname(dest),
         TempName(CHOOSE n \in TempFree(dest) : \A m \in TempFree(dest) : n <= m))

RECURSIVE Ancestors(_)
\* the directories above path, path included, up to the root
Ancestors(path) ==
    IF Len(path) <= 1 THEN {} ELSE {path} \cup Ancestors(dirname(path))

\* os.makedirs(path, 0o700) of a path that does not exist: the leaf gets the
\* mode, the missing directories above it the default one
makedirs_result(path) ==
    [q \in DOMAIN dirs \cup Ancestors(path) |->
        IF q \in DOMAIN dirs THEN dirs[q]
        ELSE IF q = path THEN "0700" ELSE "default"]

(***************************************************************************)
(* Backends (lines 429-651).                                               *)
(***************************************************************************)
BACKENDS == <<"qt", "magick", "pil">>

get_backend ==
    IF \E i \in 1..Len(BACKENDS) : BACKENDS[i] \in avail
    THEN BACKENDS[CHOOSE i \in 1..Len(BACKENDS) :
                     /\ BACKENDS[i] \in avail
                     /\ \A j \in 1..(i - 1) : BACKENDS[j] \notin avail]
    ELSE "none"

\* whether the imaging library can open path as an image
Readable(path) ==
    \/ path = ImgRef
    \/ path \in DOMAIN fs /\ fs[path].data = "image"

\* the width and height of the source image and of a thumbnail, as str() writes them
SrcDim == <<"8">>
ThumbDim == <<"4">>

\* the text a backend's create_thumbnail writes: PilBackend adds the size of
\* the source image (lines 457-459), the others write moreinfo alone
create_thumbnail_text(backend, moreinfo) ==
    IF backend = "pil"
    THEN SetKey(SetKey(moreinfo, KEY_WIDTH, SrcDim), KEY_HEIGHT, SrcDim)
    ELSE moreinfo

\* the text a backend's update_metadata writes for an image whose text is old:
\* PilBackend writes moreinfo alone (line 493), the others keep the text of the
\* image, set moreinfo over it and add the size of the image (lines 543-545, 613-615)
update_metadata_text(backend, old, moreinfo) ==
    IF backend = "pil"
    THEN moreinfo
    ELSE SetKey(SetKey(Update(old, moreinfo), KEY_WIDTH, ThumbDim), KEY_HEIGHT, ThumbDim)

\* get_info(path): a dict, None, or an exception
InfoOk(uri, mtime) == [tag |-> "ok", uri |-> uri, mtime |-> mtime]
InfoNone == [tag |-> "None", uri |-> <<>>, mtime |-> 0]
InfoRaise == [tag |-> "raise", uri |-> <<>>, mtime |-> 0]

PilBackend_get_info(path) ==
    IF ~Readable(path) THEN InfoRaise
    ELSE LET info == fs[path].meta
         IN  IF KEY_MTIME \notin DOMAIN info \/ KEY_URI \notin DOMAIN info
             THEN InfoRaise
             ELSE IF ~IsNumber(info[KEY_MTIME]) THEN InfoRaise
             ELSE InfoOk(info[KEY_URI], IntOfFloat(info[KEY_MTIME]))

\* MagickBackend.get_info and QtBackend.get_info: a missing or empty text reads
\* as '', and the mtime as int(float('' or 0)) = 0
QtBackend_get_info(path) ==
    IF ~Readable(path) THEN InfoNone
    ELSE LET info == fs[path].meta
             mt == IF KEY_MTIME \in DOMAIN info THEN info[KEY_MTIME] ELSE <<>>
             uri == IF KEY_URI \in DOMAIN info THEN info[KEY_URI] ELSE <<>>
         IN  IF mt = <<>> THEN InfoOk(uri, 0)
             ELSE IF ~IsNumber(mt) THEN InfoRaise
             ELSE InfoOk(uri, IntOfFloat(mt))

get_info(path) ==
    IF get_backend = "pil" THEN PilBackend_get_info(path)
    ELSE QtBackend_get_info(path)

\* is_thumbnail_valid(thumbnail, uri, mtime): True, False, or an exception
\* (no backend: None.get_info; get_info returned None: None['uri'])
is_thumbnail_valid_mtime_ignored(thumbnail, uri, mtime) ==
    LET info == get_info(thumbnail)
    IN  IF get_backend = "none" \/ info.tag # "ok" THEN "raise"
        ELSE IF info.uri = uri THEN "True" ELSE "False"

is_thumbnail_valid(thumbnail, uri, mtime) ==
    LET info == get_info(thumbnail)
    IN  IF get_backend = "none" \/ info.tag # "ok" THEN "raise"
        ELSE IF info.uri = uri /\ info.mtime = mtime THEN "True" ELSE "False"

(***************************************************************************)
(* Processes.  A step of a process is one access to the file system, with  *)
(* the computation that follows it up to the next access.                  *)
(***************************************************************************)
\* what an operation returns: a path, None, a bool, or an exception
ResPath(path) == [tag |-> "path", path |-> path]
ResNone == [tag |-> "None", path |-> NoPath]
ResTrue == [tag |-> "True", path |-> NoPath]
ResFalse == [tag |-> "False", path |-> NoPath]
ResRaise == [tag |-> "raise", path |-> NoPath]

Idle ==
    [pc |-> "idle", op |-> "", src |-> NoPath, size |-> SizeNone,
     origsize |-> SizeNone, thumb |-> NoPath,
     mtime |-> NoMTime, info |-> NoInfo, app |-> NoApp,
     dest |-> NoPath, tmp |-> NoPath, wdest |-> NoPath, wtmp |-> NoPath,
     meta |-> NoInfo, sizes |-> <<>>, emtime |-> 0, mkd |-> NoPath, k |-> "",
     phase |-> "", res |-> ResNone, pre |-> NoInfo, alone |-> FALSE,
     seen |-> "", exc |-> "", used |-> "",
     gen |-> FALSE, genfail |-> FALSE, missed |-> FALSE, skipped |-> FALSE,
     attempt |-> FALSE]

NoLast ==
    [op |-> "", src |-> NoPath, size |-> SizeNone, app |-> NoApp, mtime |-> NoMTime,
     res |-> ResNone, gen |-> FALSE, srcmtime |-> 0, used |-> "",
     dest |-> NoPath]

Done(pr, res) ==
    [pr EXCEPT !.pc = "done", !.res = res]

Raise(pr) ==
    Done(pr, ResRaise)

\* the exception of an operation whose size _any2size does not name by a pair:
\* the one _any2size raises, or the TypeError of _any2size(size)[0] and
\* _any2size(size)[1] on the bare int of lines 226-229
RaiseSize(pr, sz) ==
    [Raise(pr) EXCEPT !.exc = IF sz.tag = "int" THEN "TypeError" ELSE sz.tag]

\* whether no operation is running
AllIdle ==
    \A p \in DOMAIN proc : proc[p].pc = "idle"

\* the arguments of a call, and the cache as it is at the call (remembered for
\* a call made while no other operation runs)
Args(op, src, size, thumb, mtime, info, app) ==
    [Idle EXCEPT !.op = op, !.src = src, !.size = size, !.origsize = size,
                 !.thumb = thumb,
                 !.mtime = mtime, !.info = info, !.app = app,
                 !.pre = IF AllIdle THEN CacheOf(fs) ELSE NoInfo,
                 !.alone = AllIdle]

\* if not os.path.isdir(dir): os.makedirs(dir, 0o700), then on at k
\* (lines 292-293, 419-420, 681-682)
EnsureDir(pr, dir, k) ==
    [pr EXCEPT !.mkd = dir, !.k = k, !.pc = IF isdir(dir) THEN k ELSE "makedirs"]

\* create_thumbnail, lines 674-682
create_thumbnail_enter(pr) ==
    LET sz == _any2size(pr.size)
        dest == build_thumbnail_path(pr.src, SizeInt(sz.px))
        moreinfo == SetKey(_info_dict(pr.info, NoMTime, pr.src), KEY_SIZE,
                           FileSizeStr(pr.src))
    IN  IF sz.tag # "pair" THEN RaiseSize(pr, sz)
        ELSE IF ~isfile(pr.src) THEN Raise(pr)
        ELSE EnsureDir([pr EXCEPT !.dest = dest, !.meta = moreinfo],
                       dirname(dest), "b_create")

\* put_fail, lines 418-420
put_fail_enter(pr) ==
    EnsureDir(pr, dirname(fail_path(pr.src, pr.app)), "b_fail")

\* put_thumbnail, lines 377-389: where the temporary file comes from
put_thumbnail_enter(pr) ==
    LET sz == _any2size(pr.size)
        dest == build_thumbnail_path(pr.src, pr.size)
    IN  IF sz.tag # "pair" THEN RaiseSize(pr, sz)
        ELSE IF dest = pr.thumb
        THEN [pr EXCEPT !.dest = dest, !.pc = "p_mkstemp"]
        ELSE IF dirname(dest) = dirname(pr.thumb)
        THEN [pr EXCEPT !.dest = dest, !.tmp = pr.thumb, !.pc = "b_update"]
        ELSE [pr EXCEPT !.dest = dest, !.pc = "p_mkstemp"]

\* try_get_thumbnail, lines 734-740
try_get_thumbnail_enter(pr) ==
    IF _any2mtime_raises(pr.src, pr.mtime) THEN Raise(pr)
    ELSE [pr EXCEPT !.emtime = _any2mtime(pr.src, pr.mtime),
                    !.sizes = IF pr.size = SizeNone
                              THEN <<SizeStr("large"), SizeStr("normal")>>
                              ELSE <<pr.size>>,
                    !.pc = "t_exists"]

\* is_thumbnail_failed, lines 344-349
is_thumbnail_failed_enter(pr) ==
    IF _any2mtime_raises(pr.src, pr.mtime) THEN Raise(pr)
    ELSE [pr EXCEPT !.emtime = _any2mtime(pr.src, pr.mtime),
                    !.dest = fail_path(pr.src, pr.app), !.pc = "f_exists"]

\* create_temp, lines 290-293
create_temp_enter(pr) ==
    LET sz == _any2size(pr.size)
        dir == join(_thumb_path_prefix, <<sz.name>>)
    IN  IF sz.tag # "pair" THEN RaiseSize(pr, sz)
        ELSE EnsureDir([pr EXCEPT !.dest = join(dir, <<"ignored">>)], dir, "ct_mkstemp")

\* build_thumbnail_path, lines 705-711
build_thumbnail_path_enter(pr) ==
    LET sz == _any2size(pr.size)
    IN  IF sz.tag # "pair" THEN RaiseSize(pr, sz)
        ELSE Done(pr, ResPath(build_thumbnail_path(pr.src, pr.size)))

\* get_thumbnail, lines 785-787: create_thumbnail(src, size or 'large',
\* use_fail_appname=use_fail_appname)
get_thumbnail_create(pr) ==
    create_thumbnail_enter(
        [pr EXCEPT !.size = IF pr.size = SizeNone THEN SizeStr("large") ELSE pr.size,
                   !.info = NoInfo, !.mtime = NoMTime, !.attempt = TRUE])

\* get_thumbnail, lines 777-783, when try_get_thumbnail has returned None
get_thumbnail_miss(pr) ==
    IF pr.app = NoApp THEN get_thumbnail_create([pr EXCEPT !.missed = TRUE])
    ELSE IF _any2mtime_raises(pr.src, NoMTime) THEN Raise(pr)
    ELSE is_thumbnail_failed_enter(
             [pr EXCEPT !.missed = TRUE, !.mtime = _any2mtime(pr.src, NoMTime)])

\* the loop of try_get_thumbnail goes on to the next size, or ends (lines 742-748)
try_get_thumbnail_next(pr) ==
    IF Len(pr.sizes) > 1
    THEN [pr EXCEPT !.sizes = Tail(pr.sizes), !.pc = "t_exists"]
    ELSE IF pr.op = "get_thumbnail"
    THEN get_thumbnail_miss([pr EXCEPT !.sizes = <<>>])
    ELSE Done(pr, ResNone)

\* is_thumbnail_failed returns False: get_thumbnail goes on to create_thumbnail
is_thumbnail_failed_false(pr) ==
    IF pr.op = "get_thumbnail" THEN get_thumbnail_create(pr) ELSE Done(pr, ResFalse)

\* a call by an idle process
Call(p, pr) ==
    /\ proc[p].pc = "idle"
    /\ ops < MaxOps
    /\ ops' = ops + 1
    /\ proc' = [proc EXCEPT ![p] = pr]

CallCreateThumbnail(p, src, size, moreinfo, use_fail_appname) ==
    /\ Call(p, create_thumbnail_enter(
                  Args("create_thumbnail", src, size, NoPath, NoMTime, moreinfo,
                       use_fail_appname)))
    /\ UNCHANGED <<avail, fs, dirs, mtimes, scratch, last, pub>>

CallGetThumbnail(p, src, size, use_fail_appname) ==
    /\ Call(p, try_get_thumbnail_enter(
                  Args("get_thumbnail", src, size, NoPath, NoMTime, NoInfo,
                       use_fail_appname)))
    /\ UNCHANGED <<avail, fs, dirs, mtimes, scratch, last, pub>>

CallTryGetThumbnail(p, src, size, mtime) ==
    /\ Call(p, try_get_thumbnail_enter(
                  Args("try_get_thumbnail", src, size, NoPath, mtime, NoInfo, NoApp)))
    /\ UNCHANGED <<avail, fs, dirs, mtimes, scratch, last, pub>>

CallPutFail(p, src, appname, mtime, moreinfo) ==
    /\ Call(p, put_fail_enter(
                  Args("put_fail", src, SizeNone, NoPath, mtime, moreinfo, appname)))
    /\ UNCHANGED <<avail, fs, dirs, mtimes, scratch, last, pub>>

\* the caller passes a file it has produced, and no longer holds it
CallPutThumbnail(p, src, size, thumb, mtime, moreinfo) ==
    /\ thumb \in DOMAIN fs
    /\ fs[thumb].data \in {"image", "garbage"}
    /\ Call(p, put_thumbnail_enter(
                  Args("put_thumbnail", src, size, thumb, mtime, moreinfo, NoApp)))
    /\ scratch' = scratch \ {thumb}
    /\ UNCHANGED <<avail, fs, dirs, mtimes, last, pub>>

CallBuildThumbnailPath(p, src, size) ==
    /\ Call(p, build_thumbnail_path_enter(
                  Args("build_thumbnail_path", src, size, NoPath, NoMTime, NoInfo,
                       NoApp)))
    /\ UNCHANGED <<avail, fs, dirs, mtimes, scratch, last, pub>>

\* _any2uri(sth), called on its own
Call_any2uri(p, sth) ==
    /\ Call(p, Done(Args("_any2uri", sth, SizeNone, NoPath, NoMTime, NoInfo, NoApp),
                    ResPath(_any2uri(sth))))
    /\ UNCHANGED <<avail, fs, dirs, mtimes, scratch, last, pub>>

CallIsThumbnailFailed(p, src, appname, mtime) ==
    /\ Call(p, is_thumbnail_failed_enter(
                  Args("is_thumbnail_failed", src, SizeNone, NoPath, mtime, NoInfo,
                       appname)))
    /\ UNCHANGED <<avail, fs, dirs, mtimes, scratch, last, pub>>

CallCreateTemp(p, size) ==
    /\ Call(p, create_temp_enter(
                  Args("create_temp", NoPath, size, NoPath, NoMTime, NoInfo, NoApp)))
    /\ UNCHANGED <<avail, fs, dirs, mtimes, scratch, last, pub>>

\* os.makedirs(dir, 0o700) after os.path.isdir(dir) was false: it raises when
\* the directory exists by now
Makedirs(p) ==
    LET pr == proc[p]
    IN  /\ pr.pc = "makedirs"
        /\ IF exists(pr.mkd)
           THEN /\ proc' = [proc EXCEPT ![p] = Raise(pr)]
                /\ UNCHANGED dirs
           ELSE /\ proc' = [proc EXCEPT ![p] = [pr EXCEPT !.pc = pr.k]]
                /\ dirs' = makedirs_result(pr.mkd)
        /\ UNCHANGED <<avail, fs, mtimes, scratch, last, ops, pub>>

\* get_backend().create_thumbnail(src, dest, size, moreinfo), up to the
\* temporary file (line 684; lines 452-461, 524-531, 594-599), and what
\* create_thumbnail does when it returns None (lines 687-688)
BackendCreateThumbnail(p) ==
    LET pr == [proc[p] EXCEPT !.used = get_backend]
    IN  /\ pr.pc = "b_create"
        /\ proc' = [proc EXCEPT ![p] =
              IF get_backend = "none" THEN Raise(pr)
              ELSE IF ~Readable(pr.src)
              THEN IF pr.app # NoApp
                   THEN put_fail_enter([pr EXCEPT !.gen = TRUE, !.genfail = TRUE,
                                                  !.mtime = NoMTime, !.info = NoInfo])
                   ELSE [Done(pr, ResNone) EXCEPT !.gen = TRUE, !.genfail = TRUE]
              ELSE [pr EXCEPT !.gen = TRUE, !.phase = "create", !.wdest = pr.dest,
                              !.meta = create_thumbnail_text(get_backend, pr.meta),
                              !.pc = "mkstemp"]]
        /\ UNCHANGED <<avail, fs, dirs, mtimes, scratch, last, ops, pub>>

\* put_fail, lines 422-426, and create_fail up to the temporary file
BackendCreateFail(p) ==
    LET pr == [proc[p] EXCEPT !.used =
                  IF _info_dict_raises(proc[p].mtime, proc[p].src) THEN @
                  ELSE get_backend]
    IN  /\ pr.pc = "b_fail"
        /\ proc' = [proc EXCEPT ![p] =
              IF _info_dict_raises(pr.mtime, pr.src) \/ get_backend = "none"
              THEN Raise(pr)
              ELSE [pr EXCEPT !.phase = "fail", !.wdest = fail_path(pr.src, pr.app),
                              !.meta = _info_dict(pr.info, pr.mtime, pr.src),
                              !.pc = "mkstemp"]]
        /\ UNCHANGED <<avail, fs, dirs, mtimes, scratch, last, ops, pub>>

\* tmp = _mkstemp(dest) of a backend (lines 463, 474, 495 and the like)
Mkstemp(p) ==
    LET pr == proc[p]
    IN  /\ pr.pc = "mkstemp"
        /\ IF ~isdir(dirname(pr.wdest))
           THEN /\ proc' = [proc EXCEPT ![p] = Raise(pr)]
                /\ UNCHANGED fs
           ELSE /\ TempFree(pr.wdest) # {}
                /\ proc' = [proc EXCEPT ![p] =
                      [pr EXCEPT !.wtmp = _mkstemp(pr.wdest), !.pc = "write"]]
                /\ fs' = Store(fs, _mkstemp(pr.wdest), EmptyFile)
        /\ UNCHANGED <<avail, dirs, mtimes, scratch, last, ops, pub>>

\* img.save(tmp): the file is written piece by piece
Write(p) ==
    LET pr == proc[p]
    IN  /\ pr.pc = "write"
        /\ fs' = Store(fs, pr.wtmp, PartialFile)
        /\ proc' = [proc EXCEPT ![p] = [pr EXCEPT !.pc = "close"]]
        /\ UNCHANGED <<avail, dirs, mtimes, scratch, last, ops, pub>>

\* img.save(tmp) returns: the file is whole
Close(p) ==
    LET pr == proc[p]
    IN  /\ pr.pc = "close"
        /\ fs' = Store(fs, pr.wtmp, ImageFile(pr.meta))
        /\ proc' = [proc EXCEPT ![p] = [pr EXCEPT !.pc = "rename"]]
        /\ UNCHANGED <<avail, dirs, mtimes, scratch, last, ops, pub>>

\* a variant of the step below that copies the temporary file to its
\* destination and leaves it where it is
RenameCopying(p) ==
    LET pr == proc[p]
    IN  /\ pr.pc = "rename"
        /\ IF pr.wtmp \notin DOMAIN fs
           THEN /\ proc' = [proc EXCEPT ![p] = Raise(pr)]
                /\ UNCHANGED <<fs, pub>>
           ELSE /\ fs' = Store(fs, pr.wdest, fs[pr.wtmp])
                /\ pub' = IF pr.phase = "update" THEN pub ELSE Store(pub, pr.wdest, p)
                /\ proc' = [proc EXCEPT ![p] =
                      IF pr.phase = "update"
                      THEN [pr EXCEPT !.pc = "p_publish"]
                      ELSE IF pr.phase = "create" \/ pr.op = "put_fail"
                      THEN Done(pr, ResPath(pr.wdest))
                      ELSE Done(pr, ResNone)]
        /\ UNCHANGED <<avail, dirs, mtimes, scratch, last, ops>>

\* os.rename(tmp, dest) of a backend, and the return of the method: to
\* create_thumbnail (line 685), to put_fail (line 426, whose result
\* create_thumbnail drops, line 688), to put_thumbnail (line 392)
Rename(p) ==
    LET pr == proc[p]
    IN  /\ pr.pc = "rename"
        /\ IF pr.wtmp \notin DOMAIN fs
           THEN /\ proc' = [proc EXCEPT ![p] = Raise(pr)]
                /\ UNCHANGED <<fs, pub>>
           ELSE /\ fs' = RenameFile(fs, pr.wtmp, pr.wdest)
                /\ pub' = IF pr.phase = "update" THEN pub ELSE Store(pub, pr.wdest, p)
                /\ proc' = [proc EXCEPT ![p] =
                      IF pr.phase = "update"
                      THEN [pr EXCEPT !.pc = "p_publish"]
                      ELSE IF pr.phase = "create" \/ pr.op = "put_fail"
                      THEN Done(pr, ResPath(pr.wdest))
                      ELSE Done(pr, ResNone)]
        /\ UNCHANGED <<avail, dirs, mtimes, scratch, last, ops>>

\* tmp = _mkstemp(dest), lines 381 and 388
PutMkstemp(p) ==
    LET pr == proc[p]
    IN  /\ pr.pc = "p_mkstemp"
        /\ IF ~isdir(dirname(pr.dest))
           THEN /\ proc' = [proc EXCEPT ![p] = Raise(pr)]
                /\ UNCHANGED fs
           ELSE /\ TempFree(pr.dest) # {}
                /\ proc' = [proc EXCEPT ![p] =
                      [pr EXCEPT !.tmp = _mkstemp(pr.dest),
                                 !.pc = IF pr.dest = pr.thumb THEN "p_rename_in"
                                        ELSE "p_move"]]
                /\ fs' = Store(fs, _mkstemp(pr.dest), EmptyFile)
        /\ UNCHANGED <<avail, dirs, mtimes, scratch, last, ops, pub>>

\* os.rename(dest, tmp), line 382
PutRenameIn(p) ==
    LET pr == proc[p]
    IN  /\ pr.pc = "p_rename_in"
        /\ IF pr.dest \notin DOMAIN fs
           THEN /\ proc' = [proc EXCEPT ![p] = Raise(pr)]
                /\ UNCHANGED fs
           ELSE /\ fs' = RenameFile(fs, pr.dest, pr.tmp)
                /\ proc' = [proc EXCEPT ![p] = [pr EXCEPT !.pc = "b_update"]]
        /\ UNCHANGED <<avail, dirs, mtimes, scratch, last, ops, pub>>

\* shutil.move(thumb, tmp), line 389
PutMove(p) ==
    LET pr == proc[p]
    IN  /\ pr.pc = "p_move"
        /\ IF pr.thumb \notin DOMAIN fs
           THEN /\ proc' = [proc EXCEPT ![p] = Raise(pr)]
                /\ UNCHANGED fs
           ELSE /\ fs' = RenameFile(fs, pr.thumb, pr.tmp)
                /\ proc' = [proc EXCEPT ![p] = [pr EXCEPT !.pc = "b_update"]]
        /\ UNCHANGED <<avail, dirs, mtimes, scratch, last, ops, pub>>

\* put_thumbnail, lines 391-392, and update_metadata up to its temporary file:
\* PilBackend raises on a file it cannot open (line 492), the others return
\* None and leave the file as it is (lines 539-542, 609-611)
BackendUpdateMetadata(p) ==
    LET pr == [proc[p] EXCEPT !.used =
                  IF _info_dict_raises(proc[p].mtime, proc[p].src) THEN @
                  ELSE get_backend]
    IN  /\ pr.pc = "b_update"
        /\ proc' = [proc EXCEPT ![p] =
              IF _info_dict_raises(pr.mtime, pr.src) \/ get_backend = "none"
              THEN Raise(pr)
              ELSE IF ~Readable(pr.tmp)
              THEN IF get_backend = "pil" THEN Raise(pr)
                   ELSE [pr EXCEPT !.pc = "p_publish"]
              ELSE [pr EXCEPT !.phase = "update", !.wdest = pr.tmp,
                              !.meta = update_metadata_text(get_backend, fs[pr.tmp].meta,
                                           _info_dict(pr.info, pr.mtime, pr.src)),
                              !.pc = "mkstemp"]]
        /\ UNCHANGED <<avail, fs, dirs, mtimes, scratch, last, ops, pub>>

\* os.chmod(tmp, 0o600); os.rename(tmp, dest); return dest (lines 393-396)
PutPublish(p) ==
    LET pr == proc[p]
    IN  /\ pr.pc = "p_publish"
        /\ IF pr.tmp \notin DOMAIN fs
           THEN /\ proc' = [proc EXCEPT ![p] = Raise(pr)]
                /\ UNCHANGED <<fs, pub>>
           ELSE /\ fs' = RenameFile([fs EXCEPT ![pr.tmp].mode = "0600"],
                                     pr.tmp, pr.dest)
                /\ pub' = Store(pub, pr.dest, p)
                /\ proc' = [proc EXCEPT ![p] = Done(pr, ResPath(pr.dest))]
        /\ UNCHANGED <<avail, dirs, mtimes, scratch, last, ops>>

\* a variant of the step below that checks every file it finds, the source
\* itself included
TryExistsChecked(p) ==
    LET pr == proc[p]
        size == Head(pr.sizes)
        thumb == build_thumbnail_path(pr.src, size)
    IN  /\ pr.pc = "t_exists"
        /\ proc' = [proc EXCEPT ![p] =
              IF _any2size(size).tag # "pair" THEN RaiseSize(pr, _any2size(size))
              ELSE IF exists(thumb)
              THEN [pr EXCEPT !.dest = thumb, !.pc = "t_info"]
              ELSE try_get_thumbnail_next(pr)]
        /\ UNCHANGED <<avail, fs, dirs, mtimes, scratch, last, ops, pub>>

\* try_get_thumbnail, lines 743-746
TryExists(p) ==
    LET pr == proc[p]
        size == Head(pr.sizes)
        thumb == build_thumbnail_path(pr.src, size)
    IN  /\ pr.pc = "t_exists"
        /\ proc' = [proc EXCEPT ![p] =
              IF _any2size(size).tag # "pair" THEN RaiseSize(pr, _any2size(size))
              ELSE IF exists(thumb)
              THEN IF pr.src = thumb THEN Done(pr, ResPath(pr.src))
                   ELSE [pr EXCEPT !.dest = thumb, !.pc = "t_info"]
              ELSE try_get_thumbnail_next(pr)]
        /\ UNCHANGED <<avail, fs, dirs, mtimes, scratch, last, ops, pub>>

\* a variant of the step below that removes the entry it finds obsolete
TryInfoPruning(p) ==
    LET pr == proc[p]
        valid == is_thumbnail_valid(pr.dest, _any2uri(pr.src), pr.emtime)
    IN  /\ pr.pc = "t_info"
        /\ proc' = [proc EXCEPT ![p] =
              IF valid = "raise" THEN Raise(pr)
              ELSE IF valid = "True" THEN Done(pr, ResPath(pr.dest))
              ELSE try_get_thumbnail_next(pr)]
        /\ fs' = IF valid = "False" THEN Remove(fs, pr.dest) ELSE fs
        /\ UNCHANGED <<avail, dirs, mtimes, scratch, last, ops, pub>>

\* try_get_thumbnail, lines 747-748
TryInfo(p) ==
    LET pr == proc[p]
        valid == is_thumbnail_valid(pr.dest, _any2uri(pr.src), pr.emtime)
        \* what the reader found in the file it opened
        seen == [pr EXCEPT !.used = get_backend,
                           !.seen = IF exists(pr.dest) THEN fs[pr.dest].data
                                    ELSE "absent"]
    IN  /\ pr.pc = "t_info"
        /\ proc' = [proc EXCEPT ![p] =
              IF valid = "raise" THEN Raise(seen)
              ELSE IF valid = "True" THEN Done(seen, ResPath(pr.dest))
              ELSE try_get_thumbnail_next(seen)]
        /\ UNCHANGED <<avail, fs, dirs, mtimes, scratch, last, ops, pub>>

\* os.path.exists(thumb), line 350
FailedExists(p) ==
    LET pr == proc[p]
    IN  /\ pr.pc = "f_exists"
        /\ proc' = [proc EXCEPT ![p] =
              IF exists(pr.dest) THEN [pr EXCEPT !.pc = "f_info"]
              ELSE is_thumbnail_failed_false(pr)]
        /\ UNCHANGED <<avail, fs, dirs, mtimes, scratch, last, ops, pub>>

\* is_thumbnail_valid(thumb, uri, mtime), line 350, and get_thumbnail's return
\* None when the fail-file is valid (lines 782-783)
FailedInfo(p) ==
    LET pr == [proc[p] EXCEPT !.used = get_backend]
        valid == is_thumbnail_valid(pr.dest, _any2uri(pr.src), pr.emtime)
    IN  /\ pr.pc = "f_info"
        /\ proc' = [proc EXCEPT ![p] =
              IF valid = "raise" THEN Raise(pr)
              ELSE IF valid = "False" THEN is_thumbnail_failed_false(pr)
              ELSE IF pr.op = "get_thumbnail"
              THEN [Done(pr, ResNone) EXCEPT !.skipped = TRUE]
              ELSE Done(pr, ResTrue)]
        /\ UNCHANGED <<avail, fs, dirs, mtimes, scratch, last, ops, pub>>

\* return _mkstemp(os.path.join(dir, 'ignored')), line 294
CreateTempMkstemp(p) ==
    LET pr == proc[p]
    IN  /\ pr.pc = "ct_mkstemp"
        /\ TempFree(pr.dest) # {}
        /\ fs' = Store(fs, _mkstemp(pr.dest), EmptyFile)
        /\ proc' = [proc EXCEPT ![p] = Done(pr, ResPath(_mkstemp(pr.dest)))]
        /\ UNCHANGED <<avail, dirs, mtimes, scratch, last, ops, pub>>

\* the operation returns to its caller (or its exception reaches the caller)
Return(p) ==
    LET pr == proc[p]
    IN  /\ pr.pc = "done"
        /\ last' = IF pr.alone
                   THEN [op |-> pr.op, src |-> pr.src, size |-> pr.origsize,
                         app |-> pr.app, mtime |-> pr.mtime, res |-> pr.res,
                         gen |-> pr.gen, srcmtime |-> getmtime(pr.src),
                         used |-> pr.used, dest |-> pr.dest]
                   ELSE NoLast
        /\ scratch' = IF pr.op = "create_temp" /\ pr.res.tag = "path"
                      THEN scratch \cup {pr.res.path} ELSE scratch
        /\ proc' = [proc EXCEPT ![p] = Idle]
        /\ UNCHANGED <<avail, fs, dirs, mtimes, ops, pub>>

(***************************************************************************)
(* The environment: the source files change, and the application writes    *)
(* the thumbnails it makes by its own means.                               *)
(***************************************************************************)
\* a local source file is modified
Touch(src) ==
    /\ mtimes[src] < MaxMTime
    /\ mtimes' = [mtimes EXCEPT ![src] = @ + 1]
    /\ UNCHANGED <<avail, fs, dirs, proc, scratch, last, ops, pub>>

\* the application produces a thumbnail file: a PNG image without the text of
\* the standard, or a file no imaging library reads, at a path of its own, at
\* a path create_temp gave it, or at the place of the thumbnail itself
CallerWrite(path, data) ==
    /\ \/ path = ExtPath /\ path \notin DOMAIN fs
       \/ path \in scratch /\ path \in DOMAIN fs /\ fs[path].data = "empty"
       \/ InCache(path) /\ path \notin scratch /\ isdir(dirname(path))
                        /\ path \notin DOMAIN fs
    /\ \A p \in Procs : path \notin {proc[p].tmp, proc[p].wtmp}
    /\ fs' = Store(fs, path, [data |-> data, meta |-> NoInfo,
                               mode |-> IF path \in DOMAIN fs THEN fs[path].mode
                                        ELSE "default"])
    /\ last' = NoLast
    /\ UNCHANGED <<avail, dirs, mtimes, proc, scratch, ops, pub>>

\* another program of the desktop, which shares the cache, writes a PNG image
\* with the text keys it chooses at the place of an entry, making the
\* directories on its way
CallerWriteInfo(path, meta) ==
    /\ InCache(path) /\ path \notin scratch /\ path \notin DOMAIN fs
    /\ \A p \in Procs : path \notin {proc[p].tmp, proc[p].wtmp}
    /\ fs' = Store(fs, path, ImageFile(meta))
    /\ dirs' = [d \in DOMAIN dirs \cup Ancestors(dirname(path)) |->
                  IF d \in DOMAIN dirs THEN dirs[d] ELSE "default"]
    /\ last' = NoLast
    /\ UNCHANGED <<avail, mtimes, proc, scratch, ops, pub>>

\* the library of a backend is installed while the program runs: the import
\* of its is_available, which failed at the calls before, succeeds from now on
\* (lines 431-440, 504-510, 578-583)
Install(b) ==
    /\ b \notin avail
    /\ avail' = avail \cup {b}
    /\ UNCHANGED <<fs, dirs, mtimes, proc, scratch, last, ops, pub>>

(***************************************************************************)
(* The arguments the operations are called with, and the specifications.   *)
(***************************************************************************)
Sizes == {SizeStr("normal"), SizeStr("large")}
Large == SizeStr("large")
Apps == {"app", "other"}
MTimes == 0..MaxMTime
MTimesOrNone == MTimes \cup {NoMTime}

\* moreinfo: nothing, an optional key, and a dict that holds a mandatory key
MimeInfo == SetKey(NoInfo, KEY_MIME, <<"x">>)
MTimeInfo == SetKey(NoInfo, KEY_MTIME, <<"9">>)

\* the text of an entry that lacks Thumb::MTime, of one that lacks Thumb::URI,
\* and of one that has both
UriOnly(src) == SetKey(NoInfo, KEY_URI, _any2uri(src))
MTimeOnly(mtime) == SetKey(NoInfo, KEY_MTIME, str(mtime))
FullInfo(src, mtime) == SetKey(UriOnly(src), KEY_MTIME, str(mtime))

\* a source that is a file of the cache, under large/
InRef == join(join(_thumb_path_prefix, <<"large">>), PngName("x"))

\* source references: paths that name the file /t/a (absolute, relative to
\* the working directory, not normalised) and its file:// URL, a path with a
\* space, a file of the cache as an absolute path, as a path relative to the
\* working directory and as a file:// URL, and a URL
Refs ==
    {ImgRef, <<"a">>, <<"/", "t", "/", ".", "/", "a">>,
     <<"file", ":", "/", "/">> \o ImgRef,
     <<"/", "t", "/", "a", " ", "b">>,
     InRef, <<".", ".">> \o InRef, <<"file", ":", "/", "/">> \o InRef, UrlRef}

AvailChoices == {{}, {"pil"}, {"qt", "magick", "pil"}}

Init ==
    /\ avail \in AvailChoices
    /\ fs = [q \in {} |-> EmptyFile]
    /\ dirs = [q \in {<<"/", "c">>} |-> "default"]
    /\ mtimes = [f \in LocalFiles |-> 0]
    /\ proc = [p \in Procs |-> Idle]
    /\ scratch = {}
    /\ last = NoLast
    /\ ops = 0
    /\ pub = [q \in {} |-> 0]

\* the source changes, and the caller writes, between two operations
TouchBetween(src) ==
    AllIdle /\ Touch(src)

CallerWriteBetween(path, data) ==
    AllIdle /\ CallerWrite(path, data)

CallerWriteInfoBetween(path, meta) ==
    AllIdle /\ CallerWriteInfo(path, meta)

\* the steps of the operations that write
WriterSteps(p) ==
    \/ Makedirs(p) \/ BackendCreateThumbnail(p) \/ BackendCreateFail(p)
    \/ Mkstemp(p) \/ Write(p) \/ Close(p) \/ Rename(p)
    \/ PutMkstemp(p) \/ PutRenameIn(p) \/ PutMove(p)
    \/ BackendUpdateMetadata(p) \/ PutPublish(p)
    \/ Return(p)

\* the steps of the operations that read
ReaderSteps(p) ==
    \/ TryExists(p) \/ TryInfo(p)

(* Writers and a reader side by side: two processes create, put, mark as   *)
(* failed and look up the thumbnail of one source, while the source changes *)
(* and a caller writes thumbnail files of its own; the cache may hold the  *)
(* thumbnail another program made of the source.                           *)
Next ==
    \/ \E p \in Procs :
          \/ \E info \in {NoInfo, MimeInfo} :
                CallCreateThumbnail(p, ImgRef, Large, info, NoApp)
          \/ \E thumb \in {ExtPath, build_thumbnail_path(ImgRef, Large)} :
                CallPutThumbnail(p, ImgRef, Large, thumb, NoMTime, NoInfo)
          \/ CallPutFail(p, ImgRef, "app", NoMTime, NoInfo)
          \/ CallTryGetThumbnail(p, ImgRef, Large, NoMTime)
          \/ WriterSteps(p)
          \/ ReaderSteps(p)
    \/ Touch(ImgRef)
    \/ \E path \in {ExtPath, build_thumbnail_path(ImgRef, Large)} :
          CallerWrite(path, "image")
    \/ ops = 0 /\ CallerWriteInfo(build_thumbnail_path(ImgRef, Large),
                                 FullInfo(ImgRef, 0))

Spec == Init /\ [][Next]_vars

(* One process looks thumbnails up and generates them, with and without a  *)
(* fail marker, for a source that decodes and one that does not; another   *)
(* program may have left a fail-file without Thumb::MTime.                 *)
GetNext ==
    \/ \E src \in LocalFiles, size \in {SizeNone, SizeStr("normal")},
          app \in {NoApp, "app"} :
          CallGetThumbnail(1, src, size, app)
    \/ \E src \in LocalFiles, app \in {NoApp, "app"} :
          CallCreateThumbnail(1, src, Large, NoInfo, app)
    \/ \E mtime \in MTimesOrNone : CallPutFail(1, BadRef, "app", mtime, NoInfo)
    \/ \E src \in LocalFiles : TouchBetween(src)
    \/ CallerWriteInfoBetween(fail_path(BadRef, "app"), UriOnly(BadRef))
    \/ Makedirs(1) \/ BackendCreateThumbnail(1) \/ BackendCreateFail(1)
    \/ Mkstemp(1) \/ Write(1) \/ Close(1) \/ Rename(1)
    \/ TryExists(1) \/ TryInfo(1) \/ FailedExists(1) \/ FailedInfo(1)
    \/ Return(1)

GetSpec == Init /\ [][GetNext]_vars

(* One process fills the cache, by generating and by putting files the     *)
(* caller made, and looks the entries up.                                  *)
CacheNext ==
    \/ \E size \in Sizes, info \in {NoInfo, MimeInfo, MTimeInfo} :
          CallCreateThumbnail(1, ImgRef, size, info, NoApp)
    \/ \E src \in {ImgRef, UrlRef}, thumb \in DOMAIN fs,
          mtime \in MTimesOrNone, info \in {NoInfo, MTimeInfo} :
          CallPutThumbnail(1, src, Large, thumb, mtime, info)
    \/ \E src \in {ImgRef, UrlRef}, size \in Sizes \cup {SizeNone},
          mtime \in MTimesOrNone :
          CallTryGetThumbnail(1, src, size, mtime)
    \/ CallCreateTemp(1, Large)
    \/ CallPutFail(1, UrlRef, "app", 0, NoInfo)
    \/ TouchBetween(ImgRef)
    \/ \E path \in {ExtPath} \cup scratch
                   \cup {build_thumbnail_path(UrlRef, Large)},
          data \in {"image", "garbage"} :
          CallerWriteBetween(path, data)
    \/ Makedirs(1) \/ BackendCreateThumbnail(1) \/ BackendCreateFail(1)
    \/ Mkstemp(1) \/ Write(1) \/ Close(1) \/ Rename(1)
    \/ PutMkstemp(1) \/ PutRenameIn(1) \/ PutMove(1)
    \/ BackendUpdateMetadata(1) \/ PutPublish(1)
    \/ TryExists(1) \/ TryInfo(1) \/ CreateTempMkstemp(1)
    \/ Return(1)

CacheSpec == Init /\ [][CacheNext]_vars

\* sizes of every kind: the names, the numbers around the two limits, and
\* numbers out of range
SizeInputs ==
    {SizeStr(s) : s \in {"normal", "large", "128", "256"}}
        \cup {SizeInt(n) : n \in {-1, 0, 1, 100, 128, 129, 200, 256, 257}}

(* One process calls the operations that take a size, with sizes of every  *)
(* kind.                                                                   *)
SizeNext ==
    \/ \E size \in SizeInputs : CallBuildThumbnailPath(1, ImgRef, size)
    \/ \E size \in SizeInputs : CallCreateThumbnail(1, ImgRef, size, NoInfo, NoApp)
    \/ \E size \in SizeInputs : CallCreateTemp(1, size)
    \/ \E size \in SizeInputs : CallPutThumbnail(1, ImgRef, size, ExtPath, NoMTime, NoInfo)
    \/ \E size \in SizeInputs : CallTryGetThumbnail(1, ImgRef, size, NoMTime)
    \/ CallerWriteBetween(ExtPath, "image")
    \/ Makedirs(1) \/ BackendCreateThumbnail(1)
    \/ Mkstemp(1) \/ Write(1) \/ Close(1) \/ Rename(1)
    \/ PutMkstemp(1) \/ PutMove(1) \/ BackendUpdateMetadata(1) \/ PutPublish(1)
    \/ TryExists(1) \/ TryInfo(1) \/ CreateTempMkstemp(1)
    \/ Return(1)

SizeSpec == Init /\ [][SizeNext]_vars

(* One process marks sources as failed for two applications and asks       *)
(* whether they are, among fail-files and a thumbnail that another program *)
(* wrote.                                                                  *)
FailNext ==
    \/ \E src \in {BadRef, UrlRef}, app \in Apps, mtime \in MTimesOrNone :
          CallPutFail(1, src, app, mtime, NoInfo)
    \/ \E src \in {BadRef, UrlRef}, app \in Apps, mtime \in MTimesOrNone :
          CallIsThumbnailFailed(1, src, app, mtime)
    \/ \E app \in Apps, meta \in {NoInfo, UriOnly(BadRef), MTimeOnly(0)} :
          CallerWriteInfoBetween(fail_path(BadRef, app), meta)
    \/ CallerWriteInfoBetween(build_thumbnail_path(BadRef, Large), FullInfo(BadRef, 0))
    \/ TouchBetween(BadRef)
    \/ Makedirs(1) \/ BackendCreateFail(1)
    \/ Mkstemp(1) \/ Write(1) \/ Close(1) \/ Rename(1)
    \/ FailedExists(1) \/ FailedInfo(1)
    \/ Return(1)

FailSpec == Init /\ [][FailNext]_vars

(* One process makes one query on a cache that other programs have filled: *)
(* with entries of the source for both sizes and a fail-file, current,     *)
(* obsolete or lacking a key, and with a file that is itself given as a    *)
(* source.                                                                 *)
QueryNext ==
    \/ \E src \in {ImgRef, InRef}, size \in Sizes \cup {SizeNone},
          mtime \in MTimesOrNone :
          ops = 0 /\ CallTryGetThumbnail(1, src, size, mtime)
    \/ \E src \in {ImgRef} \cup {r \in Refs : abspath(r) = InRef}, size \in Sizes :
          ops = 0 /\ CallBuildThumbnailPath(1, src, size)
    \/ \E mtime \in MTimesOrNone :
          ops = 0 /\ CallIsThumbnailFailed(1, ImgRef, "app", mtime)
    \/ \E size \in Sizes,
          meta \in {NoInfo, UriOnly(ImgRef), MTimeOnly(0)}
                     \cup {FullInfo(ImgRef, m) : m \in MTimes} :
          ops = 0 /\ CallerWriteInfo(build_thumbnail_path(ImgRef, size), meta)
    \/ \E meta \in {UriOnly(ImgRef), MTimeOnly(0), FullInfo(ImgRef, 0)} :
          ops = 0 /\ CallerWriteInfo(fail_path(ImgRef, "app"), meta)
    \/ ops = 0 /\ CallerWriteInfo(InRef, NoInfo)
    \/ ops = 0 /\ Touch(ImgRef)
    \/ TryExists(1) \/ TryInfo(1) \/ FailedExists(1) \/ FailedInfo(1)
    \/ Return(1)

QuerySpec == Init /\ [][QueryNext]_vars

(* One process looks entries up, one call after the other, while the       *)
(* libraries of the backends are installed on the machine.                 *)
BackendNext ==
    \/ \E b \in {"qt", "magick", "pil"} : Install(b)
    \/ \E size \in Sizes, m \in MTimes :
          ops = 0 /\ CallerWriteInfo(build_thumbnail_path(ImgRef, size),
                                     FullInfo(ImgRef, m))
    \/ \E size \in Sizes \cup {SizeNone}, mtime \in MTimesOrNone :
          CallTryGetThumbnail(1, ImgRef, size, mtime)
    \/ TryExists(1) \/ TryInfo(1)
    \/ Return(1)

BackendSpec == Init /\ [][BackendNext]_vars

(* One process derives URIs and paths from source references, one call     *)
(* after the other; _any2uri is also given the URI it returned before.     *)
PathNext ==
    \/ \E src \in Refs, size \in Sizes : CallBuildThumbnailPath(1, src, size)
    \/ \E src \in Refs, appname \in Apps : CallIsThumbnailFailed(1, src, appname, 0)
    \/ \E sth \in Refs \cup (IF last.op = "_any2uri" THEN {last.res.path} ELSE {}) :
          Call_any2uri(1, sth)
    \/ FailedExists(1)
    \/ Return(1)

PathSpec == Init /\ [][PathNext]_vars

(* Two processes ask for temporary files side by side, in a directory that *)
(* may hold a file of that kind of name already; the caller fills the      *)
(* files it was given.                                                     *)
TempNext ==
    \/ \E p \in Procs, size \in Sizes : CallCreateTemp(p, size)
    \/ \E p \in Procs : Makedirs(p) \/ CreateTempMkstemp(p) \/ Return(p)
    \/ \E path \in scratch \cup {join(join(_thumb_path_prefix, <<"large">>), TempName(1))} :
          CallerWrite(path, "image")

TempSpec == Init /\ [][TempNext]_vars

(***************************************************************************)
(* Properties.                                                             *)
(***************************************************************************)
Sources == {ImgRef, BadRef, UrlRef}

\* the paths of the cache entries: thumbnails and fail markers
DestPaths ==
    {build_thumbnail_path(src, size) : src \in Sources, size \in Sizes}
        \cup {fail_path(src, app) : src \in Sources, app \in Apps}

\* a file that is not whole: created and still empty, or written in part
Torn(path) ==
    path \in DOMAIN fs /\ fs[path].data \in {"empty", "partial"}

TheDest == build_thumbnail_path(ImgRef, Large)

\* C1: whatever the writers do and however they interleave, the file at a
\* destination path is never a partially written one (it is absent, or a whole
\* file), and a reader that opens the entry never finds a partial file
C1_AtomicDest ==
    /\ \A d \in DestPaths : ~Torn(d)
    /\ \A p \in Procs : proc[p].seen \notin {"empty", "partial"}

\* a reader has found a whole file at the destination while a writer is in the
\* middle of writing its temporary file for the same destination
C1_Witness ==
    \E p, q \in Procs :
        /\ proc[p].pc = "close" /\ proc[p].wdest = TheDest /\ Torn(proc[p].wtmp)
        /\ proc[q].op = "try_get_thumbnail" /\ proc[q].dest = TheDest
        /\ proc[q].seen = "image"

BothCreate ==
    \A p \in Procs : proc[p].op = "create_thumbnail" /\ proc[p].pc # "idle"

\* C2: while two processes run create_thumbnail for the same source and size,
\* the destination is never an empty or truncated file, and once both have
\* returned its path the destination is the whole file of the process whose
\* rename came last, with that process's metadata and both mandatory keys
C2_ConcurrentCreate ==
    BothCreate =>
        /\ ~Torn(TheDest)
        /\ (\A p \in Procs : proc[p].pc = "done" /\ proc[p].res = ResPath(TheDest))
              => /\ TheDest \in DOMAIN fs /\ TheDest \in DOMAIN pub
                 /\ fs[TheDest] = ImageFile(proc[pub[TheDest]].meta)
                 /\ {KEY_URI, KEY_MTIME} \subseteq DOMAIN fs[TheDest].meta
                 /\ fs[TheDest].meta[KEY_URI] = _any2uri(ImgRef)
                 /\ \E m \in MTimes : fs[TheDest].meta[KEY_MTIME] = str(m)

\* both have returned, their metadata differ, and the entry is the second's
C2_Witness ==
    /\ BothCreate
    /\ \A p \in Procs : proc[p].pc = "done" /\ proc[p].res = ResPath(TheDest)
    /\ proc[1].meta # proc[2].meta
    /\ TheDest \in DOMAIN pub /\ pub[TheDest] = 2
    /\ fs[TheDest] = ImageFile(proc[2].meta)

\* the mtime a lookup expects: its mtime argument, or the source's own
Expected(pr) ==
    IF pr.mtime = NoMTime THEN mtimes[pr.src] ELSE pr.mtime

\* whether the file at path stores this URI and the decimal text of mtime
Stores(files, path, uri, mtime) ==
    /\ path \in DOMAIN files
    /\ {KEY_URI, KEY_MTIME} \subseteq DOMAIN files[path].meta
    /\ files[path].meta[KEY_URI] = uri
    /\ files[path].meta[KEY_MTIME] = str(mtime)

\* C3: when try_get_thumbnail returns a path for a source outside the cache,
\* the file at that path stores a Thumb::MTime equal to the expected mtime and
\* a Thumb::URI equal to the canonical URI of the source
C3_HitIsValid ==
    \A p \in Procs :
        LET pr == proc[p]
        IN  (/\ pr.pc = "done" /\ pr.op = "try_get_thumbnail"
             /\ pr.res.tag = "path" /\ ~InCache(pr.src))
                => Stores(fs, pr.res.path, _any2uri(pr.src), Expected(pr))

\* a lookup without size nor mtime has found the normal-size entry of a source
\* that was modified before its thumbnail was made
C3_Witness ==
    /\ proc[1].pc = "done" /\ proc[1].op = "try_get_thumbnail"
    /\ proc[1].src = ImgRef /\ proc[1].origsize = SizeNone
    /\ proc[1].mtime = NoMTime /\ mtimes[ImgRef] = 1
    /\ proc[1].res = ResPath(build_thumbnail_path(ImgRef, SizeStr("normal")))

\* C8: when create_thumbnail, put_thumbnail or put_fail fails, the files of
\* the cache are the ones of before the call: the destination is untouched and
\* no temporary file of the operation remains (stated with a backend present)
C8_FailureLeavesCache ==
    \A p \in Procs :
        LET pr == proc[p]
        IN  (/\ pr.pc = "done" /\ pr.res.tag = "raise" /\ pr.alone
             /\ get_backend # "none"
             /\ pr.op \in {"create_thumbnail", "put_thumbnail", "put_fail"})
                => CacheOf(fs) = pr.pre

\* C9: after create_thumbnail(src, size, moreinfo) has returned a path, a
\* try_get_thumbnail(src, size) with the source's current mtime returns it
C9_CreateThenTryGet ==
    \A p \in Procs :
        LET pr == proc[p]
        IN  (/\ pr.pc = "done" /\ pr.op = "try_get_thumbnail"
             /\ last.op = "create_thumbnail" /\ last.res.tag = "path"
             /\ last.src = pr.src /\ last.size = pr.origsize
             /\ last.srcmtime = mtimes[pr.src]
             /\ pr.mtime \in {NoMTime, mtimes[pr.src]})
                => pr.res = last.res

\* C10: put_thumbnail(src, size, thumb, mtime, moreinfo) returns
\* build_thumbnail_path(src, size), and the entry there stores the canonical
\* URI of src and the decimal text of mtime, wherever thumb was (stated for
\* the calls that return, with a backend, whose entry decodes)
C10_PutThumbnail ==
    \A p \in Procs :
        LET pr == proc[p]
            dest == build_thumbnail_path(pr.src, pr.origsize)
        IN  (/\ pr.pc = "done" /\ pr.op = "put_thumbnail"
             /\ pr.mtime # NoMTime /\ pr.res.tag # "raise"
             /\ dest \in DOMAIN fs /\ fs[dest].data = "image")
                => /\ pr.res = ResPath(dest)
                   /\ Stores(fs, dest, _any2uri(pr.src), pr.mtime)

\* C4: after a get_thumbnail(src) that generated the thumbnail of a local
\* source, a second get_thumbnail(src) with the source's mtime unchanged returns
\* the same path, does not call the backend to generate, and leaves the files
\* of the cache as they were
C4_SecondGetHits ==
    \A p \in Procs :
        LET pr == proc[p]
        IN  (/\ pr.pc = "done" /\ pr.op = "get_thumbnail" /\ pr.alone
             /\ last.op = "get_thumbnail" /\ last.gen /\ last.res.tag = "path"
             /\ last.src = pr.src /\ last.size = pr.origsize
             /\ last.srcmtime = mtimes[pr.src])
                => /\ pr.res = last.res
                   /\ ~pr.gen /\ ~pr.attempt
                   /\ CacheOf(fs) = pr.pre

\* the second get_thumbnail of a source, modified before the first one
\* generated its thumbnail, has returned the path the first one returned
C4_Witness ==
    /\ proc[1].pc = "done" /\ proc[1].op = "get_thumbnail"
    /\ last.op = "get_thumbnail" /\ last.gen /\ last.res.tag = "path"
    /\ last.src = proc[1].src /\ last.size = proc[1].origsize
    /\ mtimes[proc[1].src] = 1 /\ last.srcmtime = 1
    /\ proc[1].res = last.res /\ ~proc[1].gen

\* whether files hold a fail-file of app for src that stores the canonical URI
\* of src and its current mtime
ValidMarker(files, src, app) ==
    /\ Stores(files, fail_path(src, app), _any2uri(src), mtimes[src])
    /\ files[fail_path(src, app)].data = "image"

\* C5: when get_thumbnail finds no valid thumbnail and use_fail_appname is
\* given, it skips the generation and returns None exactly when a fail-file of
\* that app exists for the source and stores the source's current mtime; with
\* no fail-file, or one whose stored mtime differs, the generation is attempted
C5_SkipExactlyWhenFailed ==
    \A p \in Procs :
        LET pr == proc[p]
        IN  (/\ pr.pc = "done" /\ pr.op = "get_thumbnail" /\ pr.alone
             /\ pr.missed /\ pr.app # NoApp)
                => /\ pr.skipped <=> ValidMarker(pr.pre, pr.src, pr.app)
                   /\ pr.skipped => pr.res = ResNone /\ ~pr.attempt /\ ~pr.gen
                   /\ ~pr.skipped => pr.attempt

\* C6: when the backend fails to generate in create_thumbnail (no backend, or
\* a source that does not decode): with use_fail_appname, a fail-file of that
\* app with the canonical URI and the current mtime of the source is written
\* and None is returned; without it, None is returned and no file is written
\* in the cache
C6_BackendFailure ==
    \A p \in Procs :
        LET pr == proc[p]
        IN  (/\ pr.pc = "done" /\ pr.op = "create_thumbnail" /\ pr.alone
             /\ (pr.genfail \/ get_backend = "none"))
                => /\ pr.res = ResNone
                   /\ IF pr.app # NoApp
                      THEN ValidMarker(fs, pr.src, pr.app)
                      ELSE CacheOf(fs) = pr.pre

\* C7: with no backend available, get_thumbnail and create_thumbnail return
\* None and never raise
C7_NoBackendNoCrash ==
    \A p \in Procs :
        LET pr == proc[p]
        IN  (/\ get_backend = "none" /\ pr.pc = "done"
             /\ pr.op \in {"get_thumbnail", "create_thumbnail"})
                => pr.res = ResNone

\* C11: after put_fail(src, appname, mtime=m) has returned,
\* is_thumbnail_failed(src, appname, mtime=m2) returns True when m2 = m and
\* False when m2 differs from m
C11_FailedAfterPutFail ==
    \A p \in Procs :
        LET pr == proc[p]
        IN  (/\ pr.pc = "done" /\ pr.op = "is_thumbnail_failed"
             /\ last.op = "put_fail" /\ last.res.tag = "path"
             /\ last.src = pr.src /\ last.app = pr.app
             /\ last.mtime # NoMTime /\ pr.mtime # NoMTime)
                => pr.res = IF pr.mtime = last.mtime THEN ResTrue ELSE ResFalse

\* a fail-file put for a URL with mtime 1 has been found obsolete for mtime 0
C11_Witness ==
    /\ proc[1].pc = "done" /\ proc[1].op = "is_thumbnail_failed"
    /\ last.op = "put_fail" /\ last.res.tag = "path"
    /\ last.src = UrlRef /\ proc[1].src = UrlRef /\ last.app = proc[1].app
    /\ last.mtime = 1 /\ proc[1].mtime = 0
    /\ proc[1].res = ResFalse

\* the size class of a size as the specification of the sizes has it, a
\* number being a positive count of pixels
SizeClass(size) ==
    IF size \in {SizeStr("normal"), SizeStr("128")} THEN "normal"
    ELSE IF size \in {SizeStr("large"), SizeStr("256")} THEN "large"
    ELSE IF size.kind = "int" /\ 0 < size.n /\ size.n <= 128 THEN "normal"
    ELSE IF size.kind = "int" /\ 128 < size.n /\ size.n <= 256 THEN "large"
    ELSE "invalid"

\* C12: every operation that takes a size takes a number up to 128 and
\* 'normal', '128' for Normal, a number above 128 up to 256 and 'large', '256'
\* for Large (build_thumbnail_path then returns the path under that directory),
\* and fails with ValueError, and nothing else, for any other size
C12_SizeParsing ==
    \A p \in Procs :
        LET pr == proc[p]
        IN  (/\ pr.pc = "done" /\ pr.origsize # SizeNone
             /\ pr.op \in {"build_thumbnail_path", "create_thumbnail", "create_temp",
                           "put_thumbnail", "try_get_thumbnail"})
                => IF SizeClass(pr.origsize) = "invalid"
                   THEN pr.res = ResRaise /\ pr.exc = "ValueError"
                   ELSE /\ pr.exc = ""
                        /\ pr.op = "build_thumbnail_path"
                              => pr.res = ResPath(join(join(_thumb_path_prefix,
                                                            <<SizeClass(pr.origsize)>>),
                                                       PngName(hash_name(pr.src))))

Queries == {"try_get_thumbnail", "build_thumbnail_path", "is_thumbnail_failed"}

\* C13: try_get_thumbnail, build_thumbnail_path and is_thumbnail_failed never
\* write: no step of theirs, from the call to the return, changes a file or a
\* directory, whatever the cache holds
C13_QueriesReadOnly ==
    [][\A p \in Procs :
          (proc'[p] # proc[p] /\ (proc[p].op \in Queries \/ proc'[p].op \in Queries))
             => fs' = fs /\ dirs' = dirs]_vars

\* try_get_thumbnail has found an obsolete entry and an entry that lacks a key
\* and returned None, both entries being still there
C13_Witness ==
    /\ proc[1].pc = "done" /\ proc[1].op = "try_get_thumbnail"
    /\ proc[1].origsize = SizeNone /\ proc[1].src = ImgRef
    /\ proc[1].res = ResNone /\ proc[1].seen = "image"
    /\ get_backend = "qt" /\ mtimes[ImgRef] = 0
    /\ build_thumbnail_path(ImgRef, Large) \in DOMAIN fs
    /\ fs[build_thumbnail_path(ImgRef, Large)].meta = FullInfo(ImgRef, 1)
    /\ build_thumbnail_path(ImgRef, SizeStr("normal")) \in DOMAIN fs
    /\ fs[build_thumbnail_path(ImgRef, SizeStr("normal"))].meta = MTimeOnly(0)

\* C14: the backend is bound once: an operation of a process uses the backend
\* that the operation of that process before it used (the backends being
\* probed in the order Qt, Magick, PIL, the first available one is taken)
C14_BoundOnce ==
    \A p \in Procs :
        (last.used \notin {"", "none"} /\ proc[p].used # "")
            => proc[p].used = last.used

\* C15: two source references that canonicalize to the same URI have the same
\* identity: build_thumbnail_path returns the same path for both, for each
\* size, and is_thumbnail_failed looks at the same fail-file for both, for
\* each app name
C15_SameIdentity ==
    \A p \in Procs :
        LET pr == proc[p]
        IN  (pr.pc = "done" /\ last.op = pr.op
                /\ _any2uri(last.src) = _any2uri(pr.src))
            => /\ (pr.op = "build_thumbnail_path"
                      /\ _any2size(pr.size) = _any2size(last.size))
                   => pr.res = last.res
               /\ (pr.op = "is_thumbnail_failed" /\ pr.app = last.app)
                   => pr.dest = last.dest

\* C15, amended: the same, build_thumbnail_path being given two references
\* of which none is written as a path under the directory of the size
C15_SameIdentityOutsideSizeDir ==
    \A p \in Procs :
        LET pr == proc[p]
            sizedir == join(_thumb_path_prefix, <<_any2size(pr.size).name>>) \o <<"/">>
        IN  (pr.pc = "done" /\ last.op = pr.op
                /\ _any2uri(last.src) = _any2uri(pr.src))
            => /\ (pr.op = "build_thumbnail_path"
                      /\ _any2size(pr.size) = _any2size(last.size)
                      /\ ~startswith(pr.src, sizedir)
                      /\ ~startswith(last.src, sizedir))
                   => pr.res = last.res
               /\ (pr.op = "is_thumbnail_failed" /\ pr.app = last.app)
                   => pr.dest = last.dest

\* a relative path and a file:// URL of the same file got the same path
C15_Witness ==
    /\ proc[1].pc = "done" /\ proc[1].op = "build_thumbnail_path"
    /\ last.op = "build_thumbnail_path"
    /\ last.src = <<"a">> /\ proc[1].src = <<"file", ":", "/", "/">> \o ImgRef
    /\ last.size = Large /\ proc[1].size = Large
    /\ proc[1].res = last.res
    /\ proc[1].res = ResPath(build_thumbnail_path(ImgRef, Large))

\* C16: canonicalization is idempotent: _any2uri of a URI that _any2uri
\* returned is that URI
C16_Idempotent ==
    \A p \in Procs :
        LET pr == proc[p]
        IN  (pr.pc = "done" /\ pr.op = "_any2uri" /\ last.op = "_any2uri"
                /\ last.res.tag = "path" /\ pr.src = last.res.path)
            => pr.res = last.res

\* _any2uri was given the file:// URL it had made of a path with a space
C16_Witness ==
    /\ proc[1].pc = "done" /\ proc[1].op = "_any2uri"
    /\ last.op = "_any2uri" /\ last.src = <<"/", "t", "/", "a", " ", "b">>
    /\ proc[1].src = last.res.path
    /\ proc[1].res = last.res
    /\ last.res.path # last.src

\* C17: try_get_thumbnail without size returns the path of the large entry
\* when that entry is valid, the path of the normal entry when the large one
\* is absent or obsolete and the normal one is valid, and None when neither
\* is valid (stated with a backend present)
C17_LargeThenNormal ==
    \A p \in Procs :
        LET pr == proc[p]
            L == build_thumbnail_path(pr.src, SizeStr("large"))
            N == build_thumbnail_path(pr.src, SizeStr("normal"))
            vL == Stores(fs, L, _any2uri(pr.src), Expected(pr))
            vN == Stores(fs, N, _any2uri(pr.src), Expected(pr))
            obsolete == /\ L \in DOMAIN fs
                        /\ {KEY_URI, KEY_MTIME} \subseteq DOMAIN fs[L].meta
                        /\ ~vL
        IN  (/\ pr.pc = "done" /\ pr.op = "try_get_thumbnail"
             /\ pr.src = ImgRef /\ pr.origsize = SizeNone
             /\ get_backend # "none")
                => /\ vL => pr.res = ResPath(L)
                   /\ ((L \notin DOMAIN fs \/ obsolete) /\ vN) => pr.res = ResPath(N)
                   /\ (~vL /\ ~vN) => pr.res = ResNone

\* C18: an entry that lacks Thumb::URI or Thumb::MTime is never valid:
\* try_get_thumbnail returns None for it and is_thumbnail_failed returns False
\* for it, whatever the expected mtime (stated with a backend present)
C18_MissingKeyNeverValid ==
    \A p \in Procs :
        LET pr == proc[p]
            thumb == build_thumbnail_path(pr.src, pr.origsize)
            marker == fail_path(pr.src, pr.app)
        IN  (pr.pc = "done" /\ pr.src = ImgRef /\ get_backend # "none")
                => /\ (/\ pr.op = "try_get_thumbnail" /\ pr.origsize \in Sizes
                       /\ thumb \in DOMAIN fs
                       /\ ~({KEY_URI, KEY_MTIME} \subseteq DOMAIN fs[thumb].meta))
                      => pr.res = ResNone
                   /\ (/\ pr.op = "is_thumbnail_failed"
                       /\ marker \in DOMAIN fs
                       /\ ~({KEY_URI, KEY_MTIME} \subseteq DOMAIN fs[marker].meta))
                      => pr.res = ResFalse

C20_PutFailPerApp ==
    \A p \in Procs :
        LET pr == proc[p]
            marker == join(join(join(_thumb_path_prefix, <<"fail">>), <<pr.app>>),
                           PngName(md5(_any2uri(pr.src))))
        IN  (pr.pc = "done" /\ pr.op = "put_fail" /\ pr.alone)
                => \A q \in (DOMAIN CacheOf(fs) \cup DOMAIN pr.pre) \ {marker} :
                      /\ q \in DOMAIN fs /\ q \in DOMAIN pr.pre
                      /\ fs[q] = pr.pre[q]

\* put_fail for app "app" has replaced its fail-file, the cache holding a
\* fail-file of the other app and a thumbnail for the same source
C20_Witness ==
    /\ proc[1].pc = "done" /\ proc[1].op = "put_fail"
    /\ proc[1].src = BadRef /\ proc[1].app = "app"
    /\ proc[1].res = ResPath(fail_path(BadRef, "app"))
    /\ fail_path(BadRef, "app") \in DOMAIN proc[1].pre
    /\ fs[fail_path(BadRef, "app")] # proc[1].pre[fail_path(BadRef, "app")]
    /\ fail_path(BadRef, "other") \in DOMAIN fs
    /\ build_thumbnail_path(BadRef, Large) \in DOMAIN fs

\* C21: the file an operation has published at its destination has mode
\* 0600, and every directory the library has created under the cache root,
\* the root included, has mode 0700 (the directories of the cache being all
\* of the library's making)
C21_OwnerOnlyModes ==
    /\ \A p \in Procs :
          LET pr == proc[p]
          IN  (/\ pr.pc = "done" /\ pr.alone /\ pr.res.tag = "path"
               /\ pr.op \in {"create_thumbnail", "put_thumbnail", "put_fail"})
                  => fs[pr.res.path].mode = "0600"
    /\ \A d \in DOMAIN dirs :
          (d = _thumb_path_prefix \/ InCache(d)) => dirs[d] = "0700"

\* C22: the path create_temp returns is a file of no content in the directory
\* of the size, which exists; it did not exist when create_temp made it; it is
\* no path that another create_temp returned, to a caller before or to the
\* process that runs beside it
C22_CreateTempNew ==
    /\ [](\A p \in Procs :
            LET pr == proc[p]
            IN  (pr.pc = "done" /\ pr.op = "create_temp" /\ pr.res.tag = "path")
                   => /\ dirname(pr.res.path)
                            = join(_thumb_path_prefix, <<_any2size(pr.size).name>>)
                      /\ isdir(dirname(pr.res.path))
                      /\ pr.res.path \in DOMAIN fs
                      /\ fs[pr.res.path].data = "empty"
                      /\ pr.res.path \notin scratch
                      /\ \A q \in Procs \ {p} :
                            (proc[q].pc = "done" /\ proc[q].op = "create_temp")
                               => proc[q].res # pr.res)
    /\ [][\A p \in Procs :
            (proc[p].pc = "ct_mkstemp" /\ proc'[p].pc = "done"
                /\ proc'[p].res.tag = "path")
               => proc'[p].res.path \notin DOMAIN fs]_vars

\* both processes have been given a file under large/, which held a file
\* named like a temporary file already
C22_Witness ==
    /\ \A p \in Procs : /\ proc[p].pc = "done" /\ proc[p].op = "create_temp"
                         /\ proc[p].size = Large /\ proc[p].res.tag = "path"
    /\ proc[1].res # proc[2].res
    /\ join(join(_thumb_path_prefix, <<"large">>), TempName(1)) \in DOMAIN fs
    /\ fs[join(join(_thumb_path_prefix, <<"large">>), TempName(1))].data = "image"

\* C23: the temporary files of an operation are made in the directory of its
\* destination; when create_thumbnail, put_thumbnail or put_fail has returned
\* the path, none of them is left, the destination is the only file the cache
\* has more than at the call, and the file given to put_thumbnail is no longer
\* where it was, unless it was at the destination
C23_NoTemporaryLeft ==
    \A p \in Procs :
        LET pr == proc[p]
            dest == pr.res.path
        IN  /\ \A tmp \in {pr.tmp, pr.wtmp} \ {NoPath, pr.thumb} :
                  pr.op \in {"create_thumbnail", "put_thumbnail", "put_fail"}
                     => dirname(tmp) = dirname(IF pr.dest # NoPath THEN pr.dest
                                               ELSE pr.wdest)
            /\ (/\ pr.pc = "done" /\ pr.alone /\ pr.res.tag = "path"
                 /\ pr.op \in {"create_thumbnail", "put_thumbnail", "put_fail"})
                   => /\ dest \in DOMAIN fs
                      /\ DOMAIN CacheOf(fs) \ DOMAIN pr.pre \subseteq {dest}
                      /\ \A tmp \in {pr.tmp, pr.wtmp} \ {dest} : tmp \notin DOMAIN fs
                      /\ (pr.op = "put_thumbnail" /\ pr.thumb # dest)
                            => pr.thumb \notin DOMAIN fs

\* put_thumbnail has published a file of the caller from outside the cache,
\* through a temporary file of its own and one of the backend
C23_Witness ==
    /\ proc[1].pc = "done" /\ proc[1].op = "put_thumbnail"
    /\ proc[1].thumb = ExtPath /\ proc[1].alone
    /\ proc[1].res = ResPath(build_thumbnail_path(proc[1].src, Large))
    /\ proc[1].tmp # NoPath /\ proc[1].wtmp # NoPath /\ proc[1].tmp # proc[1].wtmp
    /\ proc[1].tmp \notin DOMAIN fs /\ proc[1].wtmp \notin DOMAIN fs
    /\ ExtPath \notin DOMAIN fs
    /\ proc[1].res.path \notin DOMAIN proc[1].pre
    /\ DOMAIN proc[1].pre # {}

\* C24: a try_get_thumbnail that runs beside create_thumbnail, put_thumbnail
\* or put_fail for the same source ends with None or with the path of an
\* entry that was a whole file when it was read, never with an exception
\* (stated with a backend present and for files that hold both mandatory
\* keys or are written by the operations)
C24_ReaderNeverFails ==
    \A p \in Procs :
        LET pr == proc[p]
        IN  (/\ pr.pc = "done" /\ pr.op = "try_get_thumbnail"
             /\ get_backend # "none"
             /\ \A q \in DOMAIN fs :
                   fs[q].data = "image"
                      => {KEY_URI, KEY_MTIME} \subseteq DOMAIN fs[q].meta)
                => \/ pr.res = ResNone
                   \/ pr.res = ResPath(TheDest) /\ pr.seen = "image"

\* two put_thumbnail calls for the same source and size are in progress at
\* once, each with a file of its own or with the destination itself
BothPut ==
    /\ \A p \in Procs : proc[p].op = "put_thumbnail" /\ proc[p].pc # "idle"
    /\ proc[1].thumb # proc[2].thumb \/ proc[1].thumb = TheDest

\* C25: when two processes run put_thumbnail at once for the same source and
\* size, the thumbnail passed being the destination included, both calls
\* return the destination without an exception, and the destination then
\* holds one whole file with the metadata of one of the two callers and both
\* mandatory keys (stated with a backend present)
C25_ConcurrentPut ==
    (/\ BothPut /\ get_backend # "none"
     /\ \A p \in Procs : proc[p].pc = "done")
        => /\ \A p \in Procs : proc[p].res = ResPath(TheDest)
           /\ TheDest \in DOMAIN fs /\ TheDest \in DOMAIN pub
           /\ fs[TheDest] = ImageFile(proc[pub[TheDest]].meta)
           /\ {KEY_URI, KEY_MTIME} \subseteq DOMAIN fs[TheDest].meta
           /\ fs[TheDest].meta[KEY_URI] = _any2uri(ImgRef)

====
